---- MODULE Spec2Model ----
(***************************************************************************)
(* Model of dsp/dct/fast-dct-fft.cpp: ei::dct::transform (DCT-II) and      *)
(* ei::dct::inverse_transform (DCT-III), both in place on a caller-owned   *)
(* float vector, computed through an FFT with scratch buffers obtained     *)
(* from the accounting allocator.                                          *)
(*                                                                         *)
(* A behaviour is a session of at most MaxCalls calls on one buffer of     *)
(* length len.  Every call is executed statement by statement (pc).        *)
(* float values are fixed-point integers: a sample 1.0 is Unit, and the    *)
(* values of cos/sin are integers at TrigScale.                            *)
(***************************************************************************)
EXTENDS Integers, Sequences, FiniteSets, TLC

\* ---- bounds ----
MaxLen == 3
MaxSample == 1
MaxCalls == 2

\* ---- numeric representation ----
Unit == 1000
TrigScale == 10000
PiFx == 31416
Tol == 25

\* ---- program constants ----
\* status codes of dsp/returntypes.hpp, sizeof of the element types
EIDSP_OK == 0
EIDSP_OUT_OF_MEM == -1002
SizeofComplex == 8
SizeofFloat == 4
SizeofKissCpx == 8

Abs(x) == IF x < 0 THEN -x ELSE x

Samples == {s * Unit : s \in (-MaxSample)..MaxSample}

\* product of a sample with a trigonometric value
Mul(a, c) == (a * c) \div TrigScale

\* cos(q*pi/(2n)) for 0 <= q <= n, by the cosine series in Horner form
QuarterCos(q, n) ==
  LET x  == (PiFx * q) \div (2 * n)
      x2 == (x * x) \div TrigScale
      t4 == TrigScale - x2 \div 56
      t3 == TrigScale - ((x2 * t4) \div TrigScale) \div 30
      t2 == TrigScale - ((x2 * t3) \div TrigScale) \div 12
  IN  TrigScale - ((x2 * t2) \div TrigScale) \div 2

\* cos(m*pi/(2n)), m >= 0, n >= 1
CosU(m, n) ==
  LET q == m % (4 * n)
  IN  IF q <= n THEN QuarterCos(q, n)
      ELSE IF q <= 2 * n THEN -QuarterCos(2 * n - q, n)
      ELSE IF q <= 3 * n THEN -QuarterCos(q - 2 * n, n)
      ELSE QuarterCos(4 * n - q, n)

\* sin(m*pi/(2n)) = cos((m - n)*pi/(2n))
SinU(m, n) == CosU(m + 3 * n, n)

\* cos(temp), sin(temp) with temp = i * M_PI / (len * 2); len = 0 gives NaN,
\* represented by 0 (the only use is a store outside the vector)
CosTemp(k, n) == IF n = 0 THEN 0 ELSE CosU(k, n)
SinTemp(k, n) == IF n = 0 THEN 0 ELSE SinU(k, n)

RECURSIVE SumTo(_, _)
\* f[0] + ... + f[n-1]
SumTo(f, n) == IF n <= 0 THEN 0 ELSE f[n - 1] + SumTo(f, n - 1)

Cpx(re, im) == [r |-> re, i |-> im]

ZeroReal(n) == [k \in 0..(n - 1) |-> 0]
ZeroCpx(n) == [k \in 0..(n - 1) |-> Cpx(0, 0)]
NoBuf == [k \in {} |-> 0]

\* real forward DFT: bins 0..n/2 of sum_j in[j] * exp(-2 pi i j k / n)
Rfft(in, n) ==
  [k \in 0..(n \div 2) |->
     Cpx(SumTo([j \in 0..(n - 1) |-> Mul(in[j], CosU(4 * j * k, n))], n),
         -SumTo([j \in 0..(n - 1) |-> Mul(in[j], SinU(4 * j * k, n))], n))]

\* complex forward DFT of n points
KissFft(in, n) ==
  [k \in 0..(n - 1) |->
     Cpx(SumTo([j \in 0..(n - 1) |->
                  Mul(in[j].r, CosU(4 * j * k, n)) + Mul(in[j].i, SinU(4 * j * k, n))], n),
         SumTo([j \in 0..(n - 1) |->
                  Mul(in[j].i, CosU(4 * j * k, n)) - Mul(in[j].r, SinU(4 * j * k, n))], n))]

\* brute-force unscaled DCT-II coefficient k of v
RefDct2(v, n, k) ==
  SumTo([j \in 0..(n - 1) |-> Mul(v[j], CosU((2 * j + 1) * k, n))], n)

\* byte sizes of the scratch buffers
FwdOutSize(n) == (n \div 2 + 1) * SizeofComplex
FwdInSize(n) == n * SizeofFloat
InvBufSize(n) == n * SizeofKissCpx

\* footprints kiss_fft_alloc may report through its memallocated argument
KissCfgFootprints == {272, 280}

\* status codes the real FFT primitive may return: r is an int, and every
\* non-zero value is a failure
RfftStatus == {EIDSP_OK, EIDSP_OUT_OF_MEM, -1}

\* the size_t expression len - 1 - i; a negative value stands for a wrap
MirrorIdx_offByOne(n, k) == n - k
MirrorIdx(n, k) == n - 1 - k

HalfLen(n) == n \div 2

\* loop bound of the forward post-processing loop
FwdPostBound_over(n) == n + 1
FwdPostBound(n) == n \div 2 + 1

VARIABLES
  len,           \* length N passed by the caller
  vector,        \* the caller's buffer, indices 0..len-1
  vector0,       \* the buffer as it was when the current call started
  orig,          \* the buffer as it was at the start of the session
  op,            \* function being executed: "fwd" or "inv"
  pc,            \* position in the function, "idle" between calls
  i,             \* loop counter
  fft_data_in,   \* scratch input buffer
  fft_data_out,  \* scratch output buffer
  r,             \* status returned by rfft
  memlen,        \* kiss_fftr_mem_length
  live,          \* accounting ledger: allocations registered and not yet released
  ledgerErr,     \* a release that matches no registered allocation happened
  ret,           \* status returned by the last call
  trace,         \* calls completed so far, with their status
  acc,           \* element accesses of the current call: <<buffer, index, capacity>>
  wlog,          \* stores to the vector in the current call: index and whether the FFT had returned
  fftReturned,   \* the FFT primitive of the current call has returned
  fwdMap,        \* forward reordering: <<vector index, fft_data_in position>> per store
  invMap         \* inverse de-interleave: <<vector index, fft_data_out position>> per store

vars == <<len, vector, vector0, orig, op, pc, i, fft_data_in, fft_data_out, r,
          memlen, live, ledgerErr, ret, trace, acc, wlog, fftReturned, fwdMap, invMap>>

Vectors(n) == [0..(n - 1) -> Samples]

Init ==
  /\ len \in 0..MaxLen
  /\ vector \in Vectors(len)
  /\ vector0 = vector
  /\ orig = vector
  /\ op = "none"
  /\ pc = "idle"
  /\ i = 0
  /\ fft_data_in = NoBuf
  /\ fft_data_out = NoBuf
  /\ r = 0
  /\ memlen = 0
  /\ live = {}
  /\ ledgerErr = FALSE
  /\ ret = 0
  /\ trace = <<>>
  /\ acc = {}
  /\ wlog = <<>>
  /\ fftReturned = FALSE
  /\ fwdMap = <<>>
  /\ invMap = <<>>

\* ---- memory accounting primitive ----
Entry(obj, size) == [obj |-> obj, size |-> size]
\* ei_dsp_calloc success / ei_dsp_register_alloc
Acquire(ledger, obj, size) == ledger \cup {Entry(obj, size)}
\* ei_dsp_free
Release(ledger, obj, size) == ledger \ {Entry(obj, size)}
BadRelease(ledger, obj, size) == Entry(obj, size) \notin ledger

\* ---- element access ----
Load(buf, k) == IF k \in DOMAIN buf THEN buf[k] ELSE 0
LoadCpx(buf, k) == IF k \in DOMAIN buf THEN buf[k] ELSE Cpx(0, 0)
\* a store outside the buffer does not land in the buffer
Store(buf, k, val) == IF k \in DOMAIN buf THEN [buf EXCEPT ![k] = val] ELSE buf
Access(name, k, cap) == <<name, k, cap>>

\* return statement; failed names the allocation point that failed, if any
Return(code, failed) ==
  /\ pc' = "idle"
  /\ ret' = code
  /\ trace' = Append(trace, [op |-> op, ret |-> code, failed |-> failed])

\* the caller invokes one of the two transforms on its buffer
Call(f) ==
  /\ pc = "idle"
  /\ Len(trace) < MaxCalls
  /\ op' = f
  /\ pc' = IF f = "fwd" THEN "f_alloc_out" ELSE "i_alloc_out"
  /\ vector0' = vector
  /\ i' = 0
  /\ r' = 0
  /\ memlen' = 0
  /\ live' = {}
  /\ ledgerErr' = FALSE
  /\ acc' = {}
  /\ wlog' = <<>>
  /\ fftReturned' = FALSE
  /\ fwdMap' = IF f = "fwd" THEN <<>> ELSE fwdMap
  /\ invMap' = IF f = "inv" THEN <<>> ELSE invMap
  /\ UNCHANGED <<len, vector, orig, fft_data_in, fft_data_out, ret, trace>>

RECURSIVE FreeSeq(_, _, _)
\* consecutive ei_dsp_free calls, es a sequence of ledger entries
FreeSeq(ledger, err, es) ==
  IF es = <<>> THEN [ledger |-> ledger, err |-> err]
  ELSE FreeSeq(Release(ledger, Head(es).obj, Head(es).size),
               err \/ BadRelease(ledger, Head(es).obj, Head(es).size),
               Tail(es))

\* ======================= ei::dct::transform =======================

\* fft_data_out = ei_dsp_calloc(fft_data_out_size, 1)
FwdAllocOut ==
  /\ pc = "f_alloc_out"
  /\ \/ /\ fft_data_out' = ZeroCpx(len \div 2 + 1)
        /\ live' = Acquire(live, "fft_data_out", FwdOutSize(len))
        /\ pc' = "f_alloc_in"
        /\ UNCHANGED <<ret, trace>>
     \/ /\ Return(EIDSP_OUT_OF_MEM, "fft_data_out")
        /\ UNCHANGED <<fft_data_out, live>>
  /\ UNCHANGED <<len, vector, vector0, orig, op, i, fft_data_in, r, memlen,
                 ledgerErr, acc, wlog, fftReturned, fwdMap, invMap>>

\* fft_data_in = ei_dsp_calloc(fft_data_in_size, 1)
FwdAllocIn ==
  /\ pc = "f_alloc_in"
  /\ \/ /\ fft_data_in' = ZeroReal(len)
        /\ live' = Acquire(live, "fft_data_in", FwdInSize(len))
        /\ pc' = "f_pre"
        /\ i' = 0
        /\ UNCHANGED <<ret, trace, ledgerErr, fft_data_out>>
     \/ LET f == FreeSeq(live, ledgerErr, <<Entry("fft_data_out", FwdOutSize(len))>>)
        IN  /\ live' = f.ledger
            /\ ledgerErr' = f.err
            /\ fft_data_out' = NoBuf
            /\ Return(EIDSP_OUT_OF_MEM, "fft_data_in")
            /\ UNCHANGED <<fft_data_in, i>>
  /\ UNCHANGED <<len, vector, vector0, orig, op, r, memlen,
                 acc, wlog, fftReturned, fwdMap, invMap>>

\* body of the preprocessing loop
FwdPreLoop ==
  /\ pc = "f_pre"
  /\ i < HalfLen(len)
  /\ fft_data_in' = Store(Store(fft_data_in, i, Load(vector, i * 2)),
                          MirrorIdx(len, i), Load(vector, i * 2 + 1))
  /\ acc' = acc \cup {Access("fft_data_in", i, len), Access("vector", i * 2, len),
                      Access("fft_data_in", MirrorIdx(len, i), len),
                      Access("vector", i * 2 + 1, len)}
  /\ fwdMap' = fwdMap \o << <<i * 2, i>>, <<i * 2 + 1, MirrorIdx(len, i)>> >>
  /\ i' = i + 1
  /\ UNCHANGED <<len, vector, vector0, orig, op, pc, fft_data_out, r, memlen, live,
                 ledgerErr, ret, trace, wlog, fftReturned, invMap>>

\* loop exit and the middle element of an odd-length input
FwdPreOdd ==
  /\ pc = "f_pre"
  /\ ~(i < HalfLen(len))
  /\ IF len % 2 = 1
       THEN /\ fft_data_in' = Store(fft_data_in, HalfLen(len), Load(vector, len - 1))
            /\ acc' = acc \cup {Access("fft_data_in", HalfLen(len), len),
                                Access("vector", len - 1, len)}
            /\ fwdMap' = Append(fwdMap, <<len - 1, HalfLen(len)>>)
       ELSE UNCHANGED <<fft_data_in, acc, fwdMap>>
  /\ pc' = "f_rfft"
  /\ UNCHANGED <<len, vector, vector0, orig, op, i, fft_data_out, r, memlen, live,
                 ledgerErr, ret, trace, wlog, fftReturned, invMap>>

\* r = ei::numpy::rfft(fft_data_in, len, fft_data_out, len / 2 + 1, len)
FwdRfft ==
  /\ pc = "f_rfft"
  /\ \E status \in RfftStatus :
       /\ r' = status
       /\ fft_data_out' = IF status = 0 THEN Rfft(fft_data_in, len) ELSE fft_data_out
  /\ fftReturned' = TRUE
  /\ pc' = "f_check"
  /\ UNCHANGED <<len, vector, vector0, orig, op, i, fft_data_in, memlen, live,
                 ledgerErr, ret, trace, acc, wlog, fwdMap, invMap>>

\* if (r != 0) { free both; return r; }
FwdCheckR_wrongCode ==
  /\ pc = "f_check"
  /\ IF r # 0
       THEN LET f == FreeSeq(live, ledgerErr, <<Entry("fft_data_in", FwdInSize(len)),
                                                 Entry("fft_data_out", FwdOutSize(len))>>)
            IN  /\ live' = f.ledger
                /\ ledgerErr' = f.err
                /\ fft_data_in' = NoBuf
                /\ fft_data_out' = NoBuf
                /\ Return(EIDSP_OUT_OF_MEM, "none")
                /\ UNCHANGED i
       ELSE /\ pc' = "f_post"
            /\ i' = 0
            /\ UNCHANGED <<live, ledgerErr, fft_data_in, fft_data_out, ret, trace>>
  /\ UNCHANGED <<len, vector, vector0, orig, op, r, memlen,
                 acc, wlog, fftReturned, fwdMap, invMap>>

FwdCheckR_leak ==
  /\ pc = "f_check"
  /\ IF r # 0
       THEN LET f == FreeSeq(live, ledgerErr, <<Entry("fft_data_out", FwdOutSize(len))>>)
            IN  /\ live' = f.ledger
                /\ ledgerErr' = f.err
                /\ fft_data_in' = NoBuf
                /\ fft_data_out' = NoBuf
                /\ Return(r, "none")
                /\ UNCHANGED i
       ELSE /\ pc' = "f_post"
            /\ i' = 0
            /\ UNCHANGED <<live, ledgerErr, fft_data_in, fft_data_out, ret, trace>>
  /\ UNCHANGED <<len, vector, vector0, orig, op, r, memlen,
                 acc, wlog, fftReturned, fwdMap, invMap>>

FwdCheckR ==
  /\ pc = "f_check"
  /\ IF r # 0
       THEN LET f == FreeSeq(live, ledgerErr, <<Entry("fft_data_in", FwdInSize(len)),
                                                 Entry("fft_data_out", FwdOutSize(len))>>)
            IN  /\ live' = f.ledger
                /\ ledgerErr' = f.err
                /\ fft_data_in' = NoBuf
                /\ fft_data_out' = NoBuf
                /\ Return(r, "none")
                /\ UNCHANGED i
       ELSE /\ pc' = "f_post"
            /\ i' = 0
            /\ UNCHANGED <<live, ledgerErr, fft_data_in, fft_data_out, ret, trace>>
  /\ UNCHANGED <<len, vector, vector0, orig, op, r, memlen,
                 acc, wlog, fftReturned, fwdMap, invMap>>

\* body of the post-processing loop: vector[i] = out[i].r * cos + out[i].i * sin
FwdPostLoop ==
  /\ pc = "f_post"
  /\ i < FwdPostBound(len)
  /\ LET bin == LoadCpx(fft_data_out, i)
     IN  vector' = Store(vector, i,
                         Mul(bin.r, CosTemp(i, len)) + Mul(bin.i, SinTemp(i, len)))
  /\ acc' = acc \cup {Access("vector", i, len),
                      Access("fft_data_out", i, len \div 2 + 1)}
  /\ wlog' = Append(wlog, [idx |-> i, after |-> fftReturned])
  /\ i' = i + 1
  /\ UNCHANGED <<len, vector0, orig, op, pc, fft_data_in, fft_data_out, r, memlen,
                 live, ledgerErr, ret, trace, fftReturned, fwdMap, invMap>>

\* loop exit, release of both buffers, return 0
FwdFinish ==
  /\ pc = "f_post"
  /\ ~(i < FwdPostBound(len))
  /\ LET f == FreeSeq(live, ledgerErr, <<Entry("fft_data_in", FwdInSize(len)),
                                          Entry("fft_data_out", FwdOutSize(len))>>)
     IN  /\ live' = f.ledger
         /\ ledgerErr' = f.err
  /\ fft_data_in' = NoBuf
  /\ fft_data_out' = NoBuf
  /\ Return(0, "none")
  /\ UNCHANGED <<len, vector, vector0, orig, op, i, r, memlen,
                 acc, wlog, fftReturned, fwdMap, invMap>>

\* ======================= ei::dct::inverse_transform =======================

\* fft_data_out = ei_dsp_calloc(fft_data_out_size, 1)
InvAllocOut ==
  /\ pc = "i_alloc_out"
  /\ \/ /\ fft_data_out' = ZeroCpx(len)
        /\ live' = Acquire(live, "fft_data_out", InvBufSize(len))
        /\ pc' = "i_alloc_in"
        /\ UNCHANGED <<ret, trace>>
     \/ /\ Return(EIDSP_OUT_OF_MEM, "fft_data_out")
        /\ UNCHANGED <<fft_data_out, live>>
  /\ UNCHANGED <<len, vector, vector0, orig, op, i, fft_data_in, r, memlen,
                 ledgerErr, acc, wlog, fftReturned, fwdMap, invMap>>

\* fft_data_in = ei_dsp_calloc(fft_data_in_size, 1)
InvAllocIn ==
  /\ pc = "i_alloc_in"
  /\ \/ /\ fft_data_in' = ZeroCpx(len)
        /\ live' = Acquire(live, "fft_data_in", InvBufSize(len))
        /\ pc' = "i_alloc_cfg"
        /\ UNCHANGED <<ret, trace, ledgerErr, fft_data_out>>
     \/ LET f == FreeSeq(live, ledgerErr, <<Entry("fft_data_out", InvBufSize(len))>>)
        IN  /\ live' = f.ledger
            /\ ledgerErr' = f.err
            /\ fft_data_out' = NoBuf
            /\ Return(EIDSP_OUT_OF_MEM, "fft_data_in")
            /\ UNCHANGED fft_data_in
  /\ UNCHANGED <<len, vector, vector0, orig, op, i, r, memlen,
                 acc, wlog, fftReturned, fwdMap, invMap>>

\* the DC term halved ahead of the configuration allocation
InvAllocCfg_halvesFirst ==
  /\ pc = "i_alloc_cfg"
  /\ vector' = IF len > 0 THEN Store(vector, 0, Load(vector, 0) \div 2) ELSE vector
  /\ wlog' = IF len > 0 THEN Append(wlog, [idx |-> 0, after |-> fftReturned]) ELSE wlog
  /\ \/ /\ \E m \in KissCfgFootprints : memlen' = m
        /\ pc' = "i_register"
        /\ UNCHANGED <<live, ledgerErr, fft_data_in, fft_data_out, ret, trace>>
     \/ LET f == FreeSeq(live, ledgerErr, <<Entry("fft_data_in", InvBufSize(len)),
                                             Entry("fft_data_out", InvBufSize(len))>>)
        IN  /\ live' = f.ledger
            /\ ledgerErr' = f.err
            /\ fft_data_in' = NoBuf
            /\ fft_data_out' = NoBuf
            /\ Return(EIDSP_OUT_OF_MEM, "cfg")
            /\ UNCHANGED memlen
  /\ UNCHANGED <<len, vector0, orig, op, i, r,
                 acc, fftReturned, fwdMap, invMap>>

\* cfg = kiss_fft_alloc(len, 0, NULL, NULL, &kiss_fftr_mem_length)
InvAllocCfg ==
  /\ pc = "i_alloc_cfg"
  /\ \/ /\ \E m \in KissCfgFootprints : memlen' = m
        /\ pc' = "i_register"
        /\ UNCHANGED <<live, ledgerErr, fft_data_in, fft_data_out, ret, trace>>
     \/ LET f == FreeSeq(live, ledgerErr, <<Entry("fft_data_in", InvBufSize(len)),
                                             Entry("fft_data_out", InvBufSize(len))>>)
        IN  /\ live' = f.ledger
            /\ ledgerErr' = f.err
            /\ fft_data_in' = NoBuf
            /\ fft_data_out' = NoBuf
            /\ Return(EIDSP_OUT_OF_MEM, "cfg")
            /\ UNCHANGED memlen
  /\ UNCHANGED <<len, vector, vector0, orig, op, i, r,
                 acc, wlog, fftReturned, fwdMap, invMap>>

\* ei_dsp_register_alloc(kiss_fftr_mem_length)
InvRegister ==
  /\ pc = "i_register"
  /\ live' = Acquire(live, "cfg", memlen)
  /\ pc' = "i_halve"
  /\ UNCHANGED <<len, vector, vector0, orig, op, i, fft_data_in, fft_data_out, r,
                 memlen, ledgerErr, ret, trace, acc, wlog, fftReturned, fwdMap, invMap>>

\* if (len > 0) vector[0] /= 2
InvHalve ==
  /\ pc = "i_halve"
  /\ IF len > 0
       THEN /\ vector' = Store(vector, 0, Load(vector, 0) \div 2)
            /\ acc' = acc \cup {Access("vector", 0, len)}
            /\ wlog' = Append(wlog, [idx |-> 0, after |-> fftReturned])
       ELSE UNCHANGED <<vector, acc, wlog>>
  /\ pc' = "i_pre"
  /\ i' = 0
  /\ UNCHANGED <<len, vector0, orig, op, fft_data_in, fft_data_out, r, memlen, live,
                 ledgerErr, ret, trace, fftReturned, fwdMap, invMap>>

\* fft_data_in[i].r = vector[i] * cos(temp); fft_data_in[i].i *= -sin(temp)
InvInputBin_fromVector(vec, inbuf, k, n) ==
  Cpx(Mul(Load(vec, k), CosTemp(k, n)), Mul(Load(vec, k), -SinTemp(k, n)))
InvInputBin(vec, inbuf, k, n) ==
  Cpx(Mul(Load(vec, k), CosTemp(k, n)), Mul(LoadCpx(inbuf, k).i, -SinTemp(k, n)))

\* the weighting done in place on the caller's vector
InvPreLoop_inPlace ==
  /\ pc = "i_pre"
  /\ i < len
  /\ fft_data_in' = Store(fft_data_in, i, InvInputBin(vector, fft_data_in, i, len))
  /\ vector' = Store(vector, i, Mul(Load(vector, i), CosTemp(i, len)))
  /\ wlog' = Append(wlog, [idx |-> i, after |-> fftReturned])
  /\ acc' = acc \cup {Access("fft_data_in", i, len), Access("vector", i, len)}
  /\ i' = i + 1
  /\ UNCHANGED <<len, vector0, orig, op, pc, fft_data_out, r, memlen, live,
                 ledgerErr, ret, trace, fftReturned, fwdMap, invMap>>

\* body of the preprocessing loop
InvPreLoop ==
  /\ pc = "i_pre"
  /\ i < len
  /\ fft_data_in' = Store(fft_data_in, i, InvInputBin(vector, fft_data_in, i, len))
  /\ acc' = acc \cup {Access("fft_data_in", i, len), Access("vector", i, len)}
  /\ i' = i + 1
  /\ UNCHANGED <<len, vector, vector0, orig, op, pc, fft_data_out, r, memlen, live,
                 ledgerErr, ret, trace, wlog, fftReturned, fwdMap, invMap>>

\* loop exit and kiss_fft(cfg, fft_data_in, fft_data_out)
InvKissFft ==
  /\ pc = "i_pre"
  /\ ~(i < len)
  /\ fft_data_out' = KissFft(fft_data_in, len)
  /\ fftReturned' = TRUE
  /\ pc' = "i_post"
  /\ i' = 0
  /\ UNCHANGED <<len, vector, vector0, orig, op, fft_data_in, r, memlen, live,
                 ledgerErr, ret, trace, acc, wlog, fwdMap, invMap>>

\* body of the post-processing loop
InvPostLoop ==
  /\ pc = "i_post"
  /\ i < HalfLen(len)
  /\ vector' = Store(Store(vector, i * 2 + 0, LoadCpx(fft_data_out, i).r),
                     i * 2 + 1, LoadCpx(fft_data_out, MirrorIdx(len, i)).r)
  /\ acc' = acc \cup {Access("vector", i * 2 + 0, len), Access("fft_data_out", i, len),
                      Access("vector", i * 2 + 1, len),
                      Access("fft_data_out", MirrorIdx(len, i), len)}
  /\ wlog' = wlog \o <<[idx |-> i * 2 + 0, after |-> fftReturned],
                       [idx |-> i * 2 + 1, after |-> fftReturned]>>
  /\ invMap' = invMap \o << <<i * 2 + 0, i>>, <<i * 2 + 1, MirrorIdx(len, i)>> >>
  /\ i' = i + 1
  /\ UNCHANGED <<len, vector0, orig, op, pc, fft_data_in, fft_data_out, r, memlen,
                 live, ledgerErr, ret, trace, fftReturned, fwdMap>>

\* loop exit, the middle element of an odd length, release of cfg and both
\* buffers, return EIDSP_OK
InvFinish ==
  /\ pc = "i_post"
  /\ ~(i < HalfLen(len))
  /\ IF len % 2 = 1
       THEN /\ vector' = Store(vector, len - 1, LoadCpx(fft_data_out, HalfLen(len)).r)
            /\ acc' = acc \cup {Access("vector", len - 1, len),
                                Access("fft_data_out", HalfLen(len), len)}
            /\ wlog' = Append(wlog, [idx |-> len - 1, after |-> fftReturned])
            /\ invMap' = Append(invMap, <<len - 1, HalfLen(len)>>)
       ELSE UNCHANGED <<vector, acc, wlog, invMap>>
  /\ LET f == FreeSeq(live, ledgerErr, <<Entry("cfg", memlen),
                                          Entry("fft_data_in", InvBufSize(len)),
                                          Entry("fft_data_out", InvBufSize(len))>>)
     IN  /\ live' = f.ledger
         /\ ledgerErr' = f.err
  /\ fft_data_in' = NoBuf
  /\ fft_data_out' = NoBuf
  /\ Return(EIDSP_OK, "none")
  /\ UNCHANGED <<len, vector0, orig, op, i, r, memlen, fftReturned, fwdMap>>

Next ==
  \/ \E f \in {"fwd", "inv"} : Call(f)
  \/ FwdAllocOut
  \/ FwdAllocIn
  \/ FwdPreLoop
  \/ FwdPreOdd
  \/ FwdRfft
  \/ FwdCheckR
  \/ FwdPostLoop
  \/ FwdFinish
  \/ InvAllocOut
  \/ InvAllocIn
  \/ InvAllocCfg
  \/ InvRegister
  \/ InvHalve
  \/ InvPreLoop
  \/ InvKissFft
  \/ InvPostLoop
  \/ InvFinish

Spec == Init /\ [][Next]_vars

\* ======================= properties =======================

Returned == pc = "idle" /\ trace # <<>>
Last == trace[Len(trace)]
Written(k) == \E w \in 1..Len(wlog) : wlog[w].idx = k
VectorAccesses == {a \in acc : a[1] = "vector"}
\* a log of <<vector index, buffer position>> stores that hits every index and
\* every position of 0..n-1 exactly once
IsPermutation(m, n) ==
  /\ Len(m) = n
  /\ {m[x][1] : x \in 1..Len(m)} = 0..(n - 1)
  /\ {m[x][2] : x \in 1..Len(m)} = 0..(n - 1)
Pairs(m) == {m[x] : x \in 1..Len(m)}

\* C1: after a successful forward transform of length N >= 1 every index
\* 0..N-1 of the vector has been overwritten with DCT-II coefficient k of the
\* input.
FullResultPopulated ==
  (Returned /\ op = "fwd" /\ ret = 0 /\ len >= 1) =>
    \A k \in 0..(len - 1) :
      /\ Written(k)
      /\ Abs(vector[k] - RefDct2(vector0, len, k)) <= Tol

\* C2: for N = 0 neither transform touches the vector, and each returns
\* success whatever the zero-byte allocations return (only the failure of an
\* allocation of non-zero size, the forward complex buffer or the FFT
\* configuration, is left aside).
ZeroLengthNoOp ==
  len = 0 =>
    /\ VectorAccesses = {}
    /\ (Returned /\ ~(Last.failed = "cfg" \/ (op = "fwd" /\ Last.failed = "fft_data_out")))
         => ret = EIDSP_OK

\* C3: a call in which one of the allocation points failed returns
\* EIDSP_OUT_OF_MEM and leaves every element of the vector as it was.
AllocFailureLeavesVector ==
  (Returned /\ Last.failed # "none") =>
    /\ ret = EIDSP_OUT_OF_MEM
    /\ vector = vector0

AllocFailureWitness ==
  /\ Returned /\ op = "inv" /\ Last.failed = "cfg"
  /\ len >= 1 /\ vector0[0] # 0
  /\ ret = EIDSP_OUT_OF_MEM

\* C4: when rfft returns a non-zero status r the forward transform returns
\* exactly r, the vector is as it was, and both scratch buffers are released.
RfftFailurePropagates ==
  (Returned /\ op = "fwd" /\ r # 0) =>
    /\ ret = r
    /\ vector = vector0
    /\ live = {}
    /\ ~ledgerErr

RfftFailureWitness ==
  /\ Returned /\ op = "fwd" /\ r = -1
  /\ len >= 2 /\ ret = r

\* C5 as stated: no store to the vector happens before the FFT primitive of
\* the call has returned.
NoWriteBeforeFft ==
  \A w \in 1..Len(wlog) : wlog[w].after

\* C5 amended: in the forward transform every store follows a successful
\* rfft; in the inverse transform the only store that precedes kiss_fft is
\* the halving of vector[0], the first store of the call, made after all
\* three allocations succeeded.
WritesAfterFftExceptHalving ==
  /\ \A w \in 1..Len(wlog) :
       wlog[w].after \/ (op = "inv" /\ w = 1 /\ wlog[w].idx = 0)
  /\ (op = "fwd" /\ wlog # <<>>) => (fftReturned /\ r = 0)
  /\ (Returned /\ Last.failed # "none") => wlog = <<>>

WritesAfterFftWitness ==
  /\ Returned /\ op = "inv" /\ ret = EIDSP_OK /\ len = 3
  /\ Len(wlog) = 4
  /\ ~wlog[1].after /\ wlog[2].after

\* C6: at every return the accounting ledger is balanced: everything acquired
\* in the call was released once with its own size, nothing else was released.
LedgerBalancedAtReturn ==
  Returned => (live = {} /\ ~ledgerErr)

LedgerBalancedWitness ==
  /\ Returned /\ Len(trace) = 2
  /\ trace[1].op = "fwd" /\ trace[1].ret = EIDSP_OUT_OF_MEM /\ trace[1].failed = "none"
  /\ trace[2].op = "inv" /\ trace[2].ret = EIDSP_OK
  /\ memlen \in KissCfgFootprints
  /\ len >= 1

RoundTripDone ==
  /\ pc = "idle" /\ len >= 1 /\ Len(trace) = 2
  /\ trace[1] = [op |-> "fwd", ret |-> 0, failed |-> "none"]
  /\ trace[2] = [op |-> "inv", ret |-> 0, failed |-> "none"]

\* C7: forward then inverse on the same buffer recovers the input up to the
\* normalisation constant, within tolerance.  The constant is read
\* generously: the result times 2N, the result over 2N, or the result times
\* 2/N (the constant of the unscaled DCT-II / DCT-III pair).
RoundTripLaw ==
  RoundTripDone =>
    \/ \A k \in 0..(len - 1) : Abs(2 * len * vector[k] - orig[k]) <= 2 * len * Tol
    \/ \A k \in 0..(len - 1) : Abs(vector[k] - 2 * len * orig[k]) <= 2 * len * Tol
    \/ \A k \in 0..(len - 1) : Abs(2 * vector[k] - len * orig[k]) <= 2 * len * Tol

\* C8: the forward reordering stores to every position of fft_data_in exactly
\* once, the inverse de-interleave stores to every index of the vector exactly
\* once, and the de-interleave pairs index and position as the reordering does.
ReorderIsBijection ==
  /\ (op = "fwd" /\ pc \in {"f_rfft", "f_check", "f_post"}) => IsPermutation(fwdMap, len)
  /\ (Returned /\ op = "inv" /\ ret = EIDSP_OK /\ Last.failed = "none")
       => IsPermutation(invMap, len)
  /\ (pc = "idle" /\ len >= 1 /\ Len(fwdMap) = len /\ Len(invMap) = len)
       => Pairs(invMap) = Pairs(fwdMap)

ReorderWitness ==
  /\ pc = "idle" /\ len = 3
  /\ Len(fwdMap) = 3 /\ Len(invMap) = 3
  /\ <<1, 2>> \in Pairs(fwdMap) /\ <<2, 1>> \in Pairs(invMap)

\* C9: every complex input of the inverse transform's FFT has imaginary part
\* zero.
ImagAlwaysZero ==
  op = "inv" => \A k \in DOMAIN fft_data_in : fft_data_in[k].i = 0

ImagZeroWitness ==
  /\ op = "inv" /\ pc = "i_post" /\ len >= 2
  /\ vector0[1] # 0
  /\ fft_data_in[1].r # 0

\* C10: for N >= 1 every element access of either transform is inside the
\* buffer it addresses.
AccessesInBounds ==
  len >= 1 => \A a \in acc : 0 <= a[2] /\ a[2] < a[3]

AccessesWitness ==
  /\ Returned /\ len = 3 /\ ret = 0
  /\ Access("fft_data_in", 2, 3) \in acc
  /\ Access("vector", 1, 3) \in acc

====
